---- MODULE Spec2Model ----
(***************************************************************************)
(* Model of network-listener.js: a browser extension that attaches the     *)
(* debugger to tabs showing watched pages, stores every XHR/Fetch request  *)
(* under its request id, and on the matching response builds one event     *)
(* record and posts it to the collector.                                   *)
(*                                                                         *)
(* Every chrome.* call that takes a callback, and every XMLHttpRequest, is *)
(* an asynchronous boundary: the call puts a task in `tasks` and a later   *)
(* step runs its callback.  chrome.storage.local.set / remove are called   *)
(* without a callback; the storage area applies operations in the order    *)
(* they are issued, so their effect is applied at the call.                *)
(***************************************************************************)
EXTENDS Bags, FiniteSets, Integers, Sequences, TLC

\* ---- bounds of the model ------------------------------------------------
\* Events the browser delivers in one run: chrome.tabs events (onUpdated,
\* onRemoved) and debugger protocol events together.
MaxInputs == 4

Tabs == {1, 2}
RequestIds == {"7"}

\* ---- JavaScript values --------------------------------------------------
\* A value that may be absent or of several types is tagged.
Undefined == [t |-> "undefined"]
Str(s) == [t |-> "string", v |-> s]
Num(n) == [t |-> "number", v |-> n]
\* An object: its own keys in insertion order, and their values.
Obj(keys, rec) == [t |-> "object", keys |-> keys, v |-> rec]
Arr(list) == [t |-> "array", v |-> list]

\* JavaScript truthiness of a tagged value (objects are always truthy).
Truthy(val) ==
  /\ val # Undefined
  /\ val # Str("")
  /\ val # Num(0)

\* ToNumber of a tagged value, for the cases the program meets:
\* the empty string converts to 0.
ToNumber(val) ==
  IF val.t = "number" THEN val.v
  ELSE IF val = Str("") THEN 0
  ELSE -1   \* stands for NaN: every comparison with it is false

\* JSON text of a scalar or of a flat object.  The strings of the model hold
\* no character that JSON escapes.
JSONscalar(val) ==
  IF val.t = "string" THEN "\"" \o val.v \o "\""
  ELSE ToString(val.v)

RECURSIVE JSONmembers(_, _)
JSONmembers(keys, rec) ==
  IF keys = <<>> THEN ""
  ELSE "\"" \o Head(keys) \o "\":" \o JSONscalar(rec[Head(keys)])
       \o (IF Tail(keys) = <<>> THEN "" ELSE ",")
       \o JSONmembers(Tail(keys), rec)

JSONstringify(val) ==
  IF val.t = "object" THEN "{" \o JSONmembers(val.keys, val.v) \o "}"
  ELSE JSONscalar(val)

\* ---- constants of the program -------------------------------------------
domainsStorageKey == "watched_domains"
resources == <<"XHR", "Fetch">>

\* `status` at line 191 is a free variable of collectNetworkEvent: it is not
\* xhr.status but the global window.status of the background page, which is
\* the empty string (nothing in the program assigns it).
status == Str("")

\* Variant of the filter that lets every typed event through.
importantResourceType_anyType(type) == Truthy(type)

\* ---- pure functions -----------------------------------------------------
importantResourceType(type) ==
  /\ Truthy(type)
  /\ \E i \in DOMAIN resources : type = Str(resources[i])

\* Variant of tryToStringify that JSON-encodes strings too.
tryToStringify_encodeAll(val) ==
  IF ~Truthy(val) THEN "" ELSE JSONstringify(val)

tryToStringify(val) ==
  IF ~Truthy(val) THEN ""
  ELSE IF val.t = "string" THEN val.v
  ELSE JSONstringify(val)

\* createEvent reads requestParams.requestId first: with requestParams
\* undefined that read throws a TypeError and no event is built.
createEventThrows(requestParams) == requestParams = Undefined

\* Variant of createEvent without the defaults for a missing response body.
createEvent_noDefault(responseBody, requestParams, responseParams) ==
  [requestId |-> requestParams.requestId,
   timestamp |-> requestParams.timestamp,
   type |-> requestParams.type,
   url |-> requestParams.request.url,
   method |-> requestParams.request.method,
   status |-> responseParams.response.status,
   requestBody |-> tryToStringify(requestParams.request.postData),
   responseBody |-> IF Truthy(responseBody)
                    THEN tryToStringify(responseBody.v.body) ELSE "undefined",
   responseBodyBase64Encoded |-> Truthy(responseBody)]

createEvent(responseBody, requestParams, responseParams) ==
  [requestId |-> requestParams.requestId,
   timestamp |-> requestParams.timestamp,
   type |-> requestParams.type,
   url |-> requestParams.request.url,
   method |-> requestParams.request.method,
   status |-> responseParams.response.status,
   requestBody |-> tryToStringify(requestParams.request.postData),
   responseBody |-> IF Truthy(responseBody)
                    THEN tryToStringify(responseBody.v.body) ELSE "",
   responseBodyBase64Encoded |-> IF Truthy(responseBody)
                                 THEN responseBody.v.base64Encoded ELSE FALSE]

\* Variant of the flag without the lower limit.
isSuccess_noLowerLimit == ToNumber(status) < 400

\* The flag collectNetworkEvent passes to its callback.
isSuccess == ToNumber(status) >= 200 /\ ToNumber(status) < 400

\* ---- watched pages ------------------------------------------------------
\* A url is a sequence of characters; the model's urls are short sequences of
\* tokens.  The watch-list served by GET /domains is a list of such strings.
PortalUrl == <<"https:", "portal", "home">>
OtherUrl == <<"https:", "other">>
WatchList == << <<"portal">> >>
NoUrl == <<>>           \* changeInfo.url is absent when the url did not change

\* String.prototype.indexOf: the first position (from 0) where s occurs in
\* url, or -1.
indexOf(url, s) ==
  LET hits == {i \in 0..(Len(url) - Len(s)) :
                 SubSeq(url, i + 1, i + Len(s)) = s}
  IN IF hits = {} THEN -1 ELSE CHOOSE i \in hits : \A j \in hits : i <= j

\* The value shouldListen passes to its callback (lines 48-52), as a boolean:
\* an absent url is falsy.
shouldListenResult(url, portalUrls) ==
  /\ url # NoUrl
  /\ \E i \in DOMAIN portalUrls : indexOf(url, portalUrls[i]) > -1

\* ---- state --------------------------------------------------------------
VARIABLES
  store,      \* chrome.storage.local: key -> stored value, or Undefined
  attached,   \* tabs this extension's debugger is attached to
  closed,     \* tabs that were removed
  listeners,  \* chrome.debugger.onEvent: listeners added per closure tabId
  tasks,      \* bag of asynchronous calls whose callback has not run yet
  sent,       \* event records handed to xhr.send for POST /events, in order
  events,     \* number of debugger events delivered so far
  tabCalls,   \* number of chrome.tabs events delivered so far
  fetchLog,   \* history: <<timestamp, data>> of every post-data fetch
  trace,      \* history: per tab and request id, the events delivered
  last        \* history: the step just taken

vars == <<store, attached, closed, listeners, tasks, sent, events, tabCalls,
          fetchLog, trace, last>>
netVars == <<sent, events, fetchLog, trace>>

StorageKeys == RequestIds \cup {domainsStorageKey}

Task(k, tabId, params, x) == [k |-> k, tabId |-> tabId, params |-> params, x |-> x]

Spawn(bag, task, n) == IF n = 0 THEN bag ELSE bag (+) [e \in {task} |-> n]
Finish(bag, task) == bag (-) SetToBag({task})

\* chrome.storage.local.set({[key]: value}) and .remove(key).
storageSet(st, key, value) == [st EXCEPT ![key] = value]
\* Variant of remove that empties the storage area when the key is missing.
storageRemove_clear(st, key) ==
  IF st[key] = Undefined THEN [k \in DOMAIN st |-> Undefined]
  ELSE [st EXCEPT ![key] = Undefined]
storageRemove(st, key) == [st EXCEPT ![key] = Undefined]

Init ==
  /\ store = [key \in StorageKeys |-> Undefined]
  /\ attached = {}
  /\ closed = {}
  /\ listeners = [t \in Tabs |-> 0]
  /\ tasks = EmptyBag
  /\ sent = <<>>
  /\ events = 0
  /\ tabCalls = 0
  /\ fetchLog = {}
  /\ trace = [t \in Tabs |-> [id \in RequestIds |-> <<>>]]
  /\ last = [op |-> "init"]

\* ---- attaching and detaching (lines 24-74, 198-231) ----------------------
\* chrome.debugger.detach({ tabId }): no callback, no listener is removed.
detach(tabId) == attached \ {tabId}

\* What the callbacks of shouldListen do once the watch-list is known: the
\* outer one of onPageChange (lines 28-38) for a task of stage "page", the
\* inner one (lines 33-37) for a task of stage "tab".  bag is the bag of
\* tasks without the finished one.
Decided(task, portalUrls, bag) ==
  IF task.x = Str("page")
  THEN /\ tasks' = (IF shouldListenResult(task.params.url, portalUrls)
                    THEN Spawn(bag, Task("getTargets", task.tabId, Undefined, Undefined), 1)
                    ELSE IF task.params.status = "complete"
                    THEN Spawn(bag, Task("getDomains", task.tabId, task.params, Str("tab")), 1)
                    ELSE bag)
       /\ UNCHANGED attached
  ELSE /\ attached' = IF ~shouldListenResult(task.params.tabUrl, portalUrls)
                      THEN detach(task.tabId) ELSE attached
       /\ tasks' = bag

\* The (changeInfo, tab) pairs of chrome.tabs.onUpdated: a navigation reports
\* the new url while loading; the end of the load reports no url.
PageChanges ==
  {[status |-> "loading", url |-> u, tabUrl |-> u] : u \in {PortalUrl, OtherUrl}}
  \cup {[status |-> "complete", url |-> NoUrl, tabUrl |-> tu] :
          tu \in {PortalUrl, OtherUrl}}

\* chrome.tabs.onUpdated -> onPageChange: shouldListen(url) -> getPortalUrls
\* -> chrome.storage.local.get(domainsStorageKey, callback).
onPageChange(tabId, c) ==
  /\ tabCalls + events < MaxInputs
  /\ tabId \notin closed
  /\ tabCalls' = tabCalls + 1
  /\ tasks' = Spawn(tasks, Task("getDomains", tabId, c, Str("page")), 1)
  /\ last' = [op |-> "onPageChange", tabId |-> tabId]
  /\ UNCHANGED <<store, attached, closed, listeners, netVars>>

\* Callback of chrome.storage.local.get(domainsStorageKey) in getPortalUrls
\* (lines 199-218): a cached list is passed on, else GET /domains is sent.
GotDomains(task) ==
  /\ task \in BagToSet(tasks) /\ task.k = "getDomains"
  /\ IF Truthy(store[domainsStorageKey])
     THEN Decided(task, store[domainsStorageKey].v, Finish(tasks, task))
     ELSE /\ tasks' = Spawn(Finish(tasks, task),
                            Task("xhrDomains", task.tabId, task.params, task.x), 1)
          /\ UNCHANGED attached
  /\ last' = [op |-> "GotDomains", tabId |-> task.tabId]
  /\ UNCHANGED <<store, closed, listeners, tabCalls, netVars>>

\* readystatechange with readyState 4 of GET /domains (lines 206-212).
\* ok = FALSE is a failed request: responseText is empty, JSON.parse throws
\* and neither the store nor the callback is reached.
DomainsLoaded(task, ok) ==
  /\ task \in BagToSet(tasks) /\ task.k = "xhrDomains"
  /\ IF ok
     THEN /\ store' = storageSet(store, domainsStorageKey, Arr(WatchList))
          /\ Decided(task, WatchList, Finish(tasks, task))
     ELSE /\ tasks' = Finish(tasks, task)
          /\ UNCHANGED <<store, attached>>
  /\ last' = [op |-> "DomainsLoaded", tabId |-> task.tabId, threw |-> ~ok]
  /\ UNCHANGED <<closed, listeners, tabCalls, netVars>>

\* Callback of chrome.debugger.getTargets in runIfNotAttached (lines 55-60).
GotTargets(task) ==
  /\ task \in BagToSet(tasks) /\ task.k = "getTargets"
  /\ tasks' = IF task.tabId \notin attached
              THEN Spawn(Finish(tasks, task),
                         Task("attach", task.tabId, Undefined, Undefined), 1)
              ELSE Finish(tasks, task)
  /\ last' = [op |-> "GotTargets", tabId |-> task.tabId]
  /\ UNCHANGED <<store, attached, closed, listeners, tabCalls, netVars>>

\* chrome.debugger.attach completes and runs onAttached(tabId) (lines 30,
\* 68-74).  The callback runs whether or not the attach succeeded (a failure
\* only sets chrome.runtime.lastError); it adds one more listener.
Attached(task) ==
  /\ task \in BagToSet(tasks) /\ task.k = "attach"
  /\ attached' = IF task.tabId \in closed THEN attached
                 ELSE attached \cup {task.tabId}
  /\ listeners' = [listeners EXCEPT ![task.tabId] = @ + 1]
  /\ tasks' = Finish(tasks, task)
  /\ last' = [op |-> "Attached", tabId |-> task.tabId]
  /\ UNCHANGED <<store, closed, tabCalls, netVars>>

\* chrome.tabs.onRemoved -> onTabRemoved (lines 226-228).
onTabRemoved(tabId) ==
  /\ tabCalls + events < MaxInputs
  /\ tabId \notin closed
  /\ tabCalls' = tabCalls + 1
  /\ closed' = closed \cup {tabId}
  /\ attached' = detach(tabId)
  /\ last' = [op |-> "onTabRemoved", tabId |-> tabId]
  /\ UNCHANGED <<store, listeners, tasks, netVars>>

\* ---- debugger events (lines 81-152, 183-196) ----------------------------
\* The request objects of requestWillBeSent events.  Large post data is
\* omitted from the event: hasPostData is set and postData is absent.
Requests ==
  {[type |-> Str("XHR"), request |->
      [url |-> "https://x/api", method |-> "GET", hasPostData |-> FALSE,
       postData |-> Undefined]],
   [type |-> Str("Fetch"), request |->
      [url |-> "https://x/save", method |-> "POST", hasPostData |-> TRUE,
       postData |-> Str("a=1")]],
   [type |-> Str("XHR"), request |->
      [url |-> "https://x/big", method |-> "POST", hasPostData |-> TRUE,
       postData |-> Undefined]],
   [type |-> Str("Image"), request |->
      [url |-> "https://x/i.png", method |-> "GET", hasPostData |-> FALSE,
       postData |-> Undefined]]}

Responses ==
  {[type |-> Str("XHR"), response |-> [status |-> 200]],
   [type |-> Str("XHR"), response |-> [status |-> 500]],
   [type |-> Str("Image"), response |-> [status |-> 200]]}

\* params of the events the debugger delivers as the events + 1 st event.
RequestParams(id) ==
  {[requestId |-> id, timestamp |-> events + 1, type |-> r.type,
    request |-> r.request] : r \in Requests}
ResponseParams(id) ==
  {[requestId |-> id, timestamp |-> events + 1, type |-> r.type,
    response |-> r.response] : r \in Responses}
FailedParams(id) ==
  {[requestId |-> id, timestamp |-> events + 1, type |-> Str("XHR")]}

\* Variant of the listener that filters request-sent events only.
onNetworkEvent_requestFilter(tabId, debuggeeId, message, params) ==
  IF tabId # debuggeeId.tabId THEN "return"
  ELSE IF message = "Network.requestWillBeSent"
  THEN (IF importantResourceType(params.type)
        THEN "onRequestWillBeSent" ELSE "return")
  ELSE IF message = "Network.responseReceived" THEN "onResponseReceived"
  ELSE "return"

\* Variant of the listener without the tab check.
onNetworkEvent_anyTab(tabId, debuggeeId, message, params) ==
  IF ~importantResourceType(params.type) THEN "return"
  ELSE IF message = "Network.requestWillBeSent" THEN "onRequestWillBeSent"
  ELSE IF message = "Network.responseReceived" THEN "onResponseReceived"
  ELSE "return"

\* What the listener onNetworkEvent(tabId) does with an event (lines 82-94):
\* the handler it calls, or "return".
onNetworkEvent(tabId, debuggeeId, message, params) ==
  IF tabId # debuggeeId.tabId THEN "return"
  ELSE IF ~importantResourceType(params.type) THEN "return"
  ELSE IF message = "Network.requestWillBeSent" THEN "onRequestWillBeSent"
  ELSE IF message = "Network.responseReceived" THEN "onResponseReceived"
  ELSE "return"

\* Line 113: the post data has to be fetched by request id.
postDataOmitted(params) ==
  params.request.hasPostData /\ ~Truthy(params.request.postData)

\* The task onRequestWillBeSent or onResponseReceived starts, or the store
\* write it makes at once (lines 110-126, 134).
handlerTask(call, tabId, params) ==
  IF call = "onResponseReceived"
  THEN Task("storageGet", tabId, params, Undefined)
  ELSE Task("getRequestPostData", tabId, params, Undefined)

handlerStores(call, params) ==
  call = "onRequestWillBeSent" /\ ~postDataOmitted(params)

\* chrome.debugger.onEvent fires for an attached tab: every listener that
\* was added is called with the same event.
onEvent(src, message, params) ==
  LET id == params.requestId
      call(t) == onNetworkEvent(t, [tabId |-> src], message, params)
      acting == {t \in Tabs : listeners[t] > 0 /\ call(t) # "return"}
      storing == {t \in acting : handlerStores(call(t), params)}
      spawning == acting \ storing
  IN
  /\ tabCalls + events < MaxInputs
  /\ src \in attached
  /\ events' = events + 1
  /\ store' = IF storing # {} THEN storageSet(store, id, params) ELSE store
  /\ tasks' = tasks (+) [task \in {handlerTask(call(t), t, params) : t \in spawning}
                           |-> listeners[task.tabId]]
  /\ trace' = [trace EXCEPT ![src][id] = Append(@, [message |-> message, params |-> params])]
  /\ last' = [op |-> "onEvent", tabId |-> src, message |-> message,
              params |-> params, acting |-> acting]
  /\ UNCHANGED <<attached, closed, listeners, sent, tabCalls, fetchLog>>

\* A debugger command on a tab that is not attached fails: its callback gets
\* no result.  On an attached tab it may fail too (the request is gone).
PostDataResults(tabId) ==
  {Undefined} \cup
  (IF tabId \in attached
   THEN {Obj(<<"postData">>, [postData |-> Str("big=1")])} ELSE {})

ResponseBodyResults(tabId) ==
  {Undefined} \cup
  (IF tabId \in attached
   THEN {Obj(<<"body", "base64Encoded">>, [body |-> Str("ok"), base64Encoded |-> FALSE]),
         Obj(<<"body", "base64Encoded">>, [body |-> Str("QUJD"), base64Encoded |-> TRUE])}
   ELSE {})

\* Callback of Network.getRequestPostData (lines 118-121).
withPostData(params, data) == [params EXCEPT !.request.postData = data]

\* Variant of the post-data callback that stores nothing when the fetch failed.
postDataCallback_dropOnFailure(st, params, data) ==
  IF data = Undefined THEN st
  ELSE storageSet(st, params.requestId, withPostData(params, data))

postDataCallback(st, params, data) ==
  storageSet(st, params.requestId, withPostData(params, data))

PostDataFetched(task, data) ==
  /\ task \in BagToSet(tasks) /\ task.k = "getRequestPostData"
  /\ data \in PostDataResults(task.tabId)
  /\ store' = postDataCallback(store, task.params, data)
  /\ tasks' = Finish(tasks, task)
  /\ fetchLog' = fetchLog \cup {<<task.params.timestamp, data>>}
  /\ last' = [op |-> "PostDataFetched", tabId |-> task.tabId,
              requestId |-> task.params.requestId,
              timestamp |-> task.params.timestamp, data |-> data]
  /\ UNCHANGED <<attached, closed, listeners, sent, events, tabCalls, trace>>

\* Callback of chrome.storage.local.get(params.requestId) (lines 134-135):
\* Network.getResponseBody is sent whatever the store returned.
StorageGot(task) ==
  /\ task \in BagToSet(tasks) /\ task.k = "storageGet"
  /\ tasks' = Spawn(Finish(tasks, task),
                    Task("getResponseBody", task.tabId, task.params,
                         store[task.params.requestId]), 1)
  /\ last' = [op |-> "StorageGot", tabId |-> task.tabId,
              requestId |-> task.params.requestId,
              requestParams |-> store[task.params.requestId]]
  /\ UNCHANGED <<store, attached, closed, listeners, tabCalls, netVars>>

\* Variant that removes the entry as soon as the record is handed over.
collecting_removeAtOnce(st, requestId) == storageRemove(st, requestId)

\* The store while POST /events is under way (lines 145-149): the removal is
\* inside the callback of collectNetworkEvent, so nothing changes yet.
collecting(st, requestId) == st

\* Callback of Network.getResponseBody (lines 139-149): createEvent, then
\* collectNetworkEvent up to xhr.send (lines 184-195).
ResponseBodyFetched(task, response) ==
  /\ task \in BagToSet(tasks) /\ task.k = "getResponseBody"
  /\ response \in ResponseBodyResults(task.tabId)
  /\ IF createEventThrows(task.x)
     THEN /\ tasks' = Finish(tasks, task)
          /\ UNCHANGED <<sent, store>>
     ELSE LET event == createEvent(response, task.x, task.params)
          IN /\ sent' = Append(sent, event)
             /\ store' = collecting(store, task.params.requestId)
             /\ tasks' = Spawn(Finish(tasks, task),
                               Task("postEvent", task.tabId, task.params, event), 1)
  /\ last' = [op |-> "ResponseBodyFetched", tabId |-> task.tabId,
              requestId |-> task.params.requestId, response |-> response,
              requestParams |-> task.x, threw |-> createEventThrows(task.x),
              nsent |-> Len(sent)]
  /\ UNCHANGED <<attached, closed, listeners, events, tabCalls, fetchLog, trace>>

\* Variants of the dispatch callback: one removes the entry only when told
\* the dispatch succeeded, one forgets the removal.
dispatched_onlyIfSuccess(st, requestId, ok) ==
  IF ok THEN storageRemove(st, requestId) ELSE st
dispatched_noRemove(st, requestId, ok) == st

\* What the callback handed to collectNetworkEvent does to the store
\* (lines 145-148): it logs the flag and removes the entry.
dispatched(st, requestId, ok) == storageRemove(st, requestId)

\* POST /events reaches readyState DONE with HTTP status xhrStatus (0 for a
\* network error) and the callback runs (lines 189-193, 145-148).
XhrStatuses == {0, 200, 304, 500}

EventPosted(task, xhrStatus) ==
  /\ task \in BagToSet(tasks) /\ task.k = "postEvent"
  /\ store' = dispatched(store, task.params.requestId, isSuccess)
  /\ tasks' = Finish(tasks, task)
  /\ last' = [op |-> "EventPosted", tabId |-> task.tabId,
              requestId |-> task.params.requestId, event |-> task.x,
              xhrStatus |-> xhrStatus, isSuccess |-> isSuccess,
              before |-> store[task.params.requestId]]
  /\ UNCHANGED <<attached, closed, listeners, tabCalls, netVars>>

\* ---- specification ------------------------------------------------------
Next ==
  \/ \E t \in Tabs, c \in PageChanges : onPageChange(t, c)
  \/ \E t \in Tabs : onTabRemoved(t)
  \/ \E task \in BagToSet(tasks) : GotDomains(task)
  \/ \E task \in BagToSet(tasks), ok \in BOOLEAN : DomainsLoaded(task, ok)
  \/ \E task \in BagToSet(tasks) : GotTargets(task)
  \/ \E task \in BagToSet(tasks) : Attached(task)
  \/ \E t \in Tabs, id \in RequestIds :
       \/ \E p \in RequestParams(id) : onEvent(t, "Network.requestWillBeSent", p)
       \/ \E p \in ResponseParams(id) : onEvent(t, "Network.responseReceived", p)
       \/ \E p \in FailedParams(id) : onEvent(t, "Network.loadingFailed", p)
  \/ \E task \in BagToSet(tasks) :
       \E data \in PostDataResults(task.tabId) : PostDataFetched(task, data)
  \/ \E task \in BagToSet(tasks) : StorageGot(task)
  \/ \E task \in BagToSet(tasks) :
       \E r \in ResponseBodyResults(task.tabId) : ResponseBodyFetched(task, r)
  \/ \E task \in BagToSet(tasks), s \in XhrStatuses : EventPosted(task, s)

Spec == Init /\ [][Next]_vars

TypeOK ==
  /\ attached \subseteq Tabs
  /\ events \in 0..MaxInputs
  /\ tabCalls \in 0..MaxInputs
  /\ tabCalls + events <= MaxInputs

\* ---- properties ---------------------------------------------------------
IsRequest(e) == e.message = "Network.requestWillBeSent"
IsResponse(e) == e.message = "Network.responseReceived"
\* The whitelist as the specification states it: XHR and Fetch.
Passes(e) == e.params.type \in {Str("XHR"), Str("Fetch")}

\* Positions in `sent` of the records with request id `id`.
Records(id) == {i \in DOMAIN sent : sent[i].requestId = id}

\* All events delivered for request id `id`, over all tabs.
EventsOf(id) ==
  UNION {{trace[t][id][i] : i \in DOMAIN trace[t][id]} : t \in Tabs}

\* Nothing is in flight any more.
Quiescent == tasks = EmptyBag

SingleListeners == \A t \in Tabs : listeners[t] <= 1

Delivered(xhrStatus) == xhrStatus >= 200 /\ xhrStatus < 300

\* C1: for an identifier whose type passes the filter, one request-sent event
\* followed by one response-received event in the observed tab (one listener,
\* no other event for the identifier) yields, once every callback has run,
\* exactly one record, carrying the request's identifier, url and method and
\* the response's status.
C1_OnePairOneRecord ==
  \A t \in Tabs, id \in RequestIds :
    LET tr == trace[t][id] IN
    ( /\ Quiescent
      /\ SingleListeners
      /\ Len(tr) = 2
      /\ IsRequest(tr[1]) /\ Passes(tr[1])
      /\ IsResponse(tr[2]) /\ Passes(tr[2])
      /\ \A u \in Tabs \ {t} : trace[u][id] = <<>> )
    => /\ Cardinality(Records(id)) = 1
       /\ \A i \in Records(id) :
            /\ sent[i].requestId = tr[1].params.requestId
            /\ sent[i].url = tr[1].params.request.url
            /\ sent[i].method = tr[1].params.request.method
            /\ sent[i].status = tr[2].params.response.status

\* C2: whatever request-sent and response-received events arrive, an
\* identifier that completed the request phase (one filter-passing request-sent
\* event, handled by one listener) has at most one record handed to the
\* transport.
C2_AtMostOneRecord ==
  \A id \in RequestIds :
    ( /\ SingleListeners
      /\ Cardinality({e \in EventsOf(id) : IsRequest(e) /\ Passes(e)}) = 1 )
    => Cardinality(Records(id)) <= 1

C4_RemovedOnSuccess ==
  ( /\ last.op = "EventPosted"
    /\ Delivered(last.xhrStatus) )
  => store[last.requestId] = Undefined

C4_Witness ==
  /\ last.op = "EventPosted"
  /\ Delivered(last.xhrStatus)
  /\ last.before # Undefined
  /\ last.event.requestId = last.requestId
  /\ store[last.requestId] = Undefined

\* C5: a response-received event whose identifier has no stored pending
\* request hands nothing to the transport and raises no error.
C5_OrphanDropped ==
  ( /\ last.op = "ResponseBodyFetched"
    /\ last.requestParams = Undefined )
  => /\ Len(sent) = last.nsent
     /\ ~last.threw

\* C6: when Network.getResponseBody yields no result for an identifier that
\* has a stored pending request, a record is still built and handed to the
\* transport, with responseBody "" and the binary flag false.
C6_RecordWithoutBody ==
  ( /\ last.op = "ResponseBodyFetched"
    /\ last.response = Undefined
    /\ last.requestParams # Undefined )
  => /\ Len(sent) = last.nsent + 1
     /\ sent[Len(sent)].requestId = last.requestId
     /\ sent[Len(sent)].responseBody = ""
     /\ sent[Len(sent)].responseBodyBase64Encoded = FALSE
     /\ \E task \in BagToSet(tasks) :
          task.k = "postEvent" /\ task.x = sent[Len(sent)]

C6_Witness ==
  /\ last.op = "ResponseBodyFetched"
  /\ last.response = Undefined
  /\ last.requestParams # Undefined
  /\ Len(sent) = last.nsent + 1
  /\ sent[Len(sent)].responseBody = ""

\* The outcomes of the post-data fetches of the request-sent event with
\* timestamp ts.
FetchesOf(ts) == {f \in fetchLog : f[1] = ts}

\* C7: when a request-sent event has hasPostData set and postData absent and
\* the follow-up fetch succeeds, the record's requestBody is the fetched post
\* data, not the empty string.
C7_FetchedPostData ==
  \A i \in DOMAIN sent :
    ( /\ FetchesOf(sent[i].timestamp) # {}
      /\ \A f \in FetchesOf(sent[i].timestamp) : f[2] # Undefined )
    => /\ sent[i].requestBody # ""
       /\ \A f \in FetchesOf(sent[i].timestamp) :
            sent[i].requestBody = f[2].v.postData.v

\* C8: when the follow-up post-data fetch fails, the pending request is stored
\* all the same, and a record built for it has requestBody "".
C8_FailedFetchStored ==
  /\ ( /\ last.op = "PostDataFetched"
       /\ last.data = Undefined )
     => /\ store[last.requestId] # Undefined
        /\ store[last.requestId].timestamp = last.timestamp
        /\ store[last.requestId].request.postData = Undefined
  /\ \A i \in DOMAIN sent :
       ( /\ FetchesOf(sent[i].timestamp) # {}
         /\ \A f \in FetchesOf(sent[i].timestamp) : f[2] = Undefined )
       => sent[i].requestBody = ""

C8_Witness ==
  \E i \in DOMAIN sent :
    /\ FetchesOf(sent[i].timestamp) = {<<sent[i].timestamp, Undefined>>}
    /\ sent[i].requestBody = ""
    /\ sent[i].url = "https://x/big"

\* C9: a request-sent event whose type is not in the whitelist changes neither
\* the store nor the tasks in flight, and an identifier that only ever had such
\* request-sent events has no record, also after a response-received event
\* for it.
C9_FilteredRequest ==
  /\ [][ ( /\ events' = events + 1
           /\ IsRequest(last')
           /\ ~Passes(last') )
         => /\ store' = store
            /\ tasks' = tasks
            /\ sent' = sent ]_vars
  /\ [](\A id \in RequestIds :
          (\A e \in EventsOf(id) : IsRequest(e) => ~Passes(e))
          => Records(id) = {})

C9_Witness ==
  \E t \in Tabs, id \in RequestIds :
    /\ Len(trace[t][id]) = 2
    /\ IsRequest(trace[t][id][1]) /\ trace[t][id][1].params.type = Str("Image")
    /\ IsResponse(trace[t][id][2]) /\ Passes(trace[t][id][2])
    /\ last.op = "ResponseBodyFetched"
    /\ last.requestId = id
    /\ last.requestParams = Undefined
    /\ store[id] = Undefined
    /\ sent = <<>>

\* C10: a listener created for tab T ignores the events of every other tab: an
\* event of tab S is handled by listeners of S only, and every task it starts
\* belongs to a listener of S.
C10_OtherTabsIgnored ==
  last.op = "onEvent"
  => /\ last.acting \subseteq {last.tabId}
     /\ \A task \in BagToSet(tasks) :
          task.params = last.params => task.tabId = last.tabId

C10_Witness ==
  /\ last.op = "onEvent"
  /\ last.acting = {last.tabId}
  /\ \E t \in Tabs \ {last.tabId} : listeners[t] > 0
  /\ \E task \in BagToSet(tasks) : task.params = last.params

\* C11: two request-sent events for the same identifier in one tab and no
\* response: once both are fully handled (post-data fetches included) the store
\* holds the data of the later event.
C11_LaterRequestWins ==
  \A t \in Tabs, id \in RequestIds :
    LET tr == trace[t][id] IN
    ( /\ Quiescent
      /\ SingleListeners
      /\ Len(tr) = 2
      /\ IsRequest(tr[1]) /\ Passes(tr[1])
      /\ IsRequest(tr[2]) /\ Passes(tr[2])
      /\ \A u \in Tabs \ {t} : trace[u][id] = <<>> )
    => /\ store[id] # Undefined
       /\ store[id].timestamp = tr[2].params.timestamp
       /\ store[id].request.url = tr[2].params.request.url

\* ---- the serializer on its own -------------------------------------------
\* The values a request or response body can be: absent, a string, or an
\* object.
BodyValues ==
  {Undefined, Str(""), Str("a=1"), Str("{\"a\":1}"),
   Obj(<<"a">>, [a |-> Num(1)]),
   Obj(<<"postData">>, [postData |-> Str("big=1")]),
   Obj(<<"a", "b">>, [a |-> Num(1), b |-> Str("x")])}

\* What Network.getResponseBody can hand to createEvent.
BodyResults ==
  {Undefined} \cup
  {Obj(<<"body", "base64Encoded">>, [body |-> b, base64Encoded |-> f]) :
     b \in BodyValues, f \in BOOLEAN}

SerRequest(postData) ==
  [requestId |-> "7", timestamp |-> 1, type |-> Str("XHR"),
   request |-> [url |-> "https://x/api", method |-> "POST",
                hasPostData |-> TRUE, postData |-> postData]]
SerResponse ==
  [requestId |-> "7", timestamp |-> 2, type |-> Str("XHR"),
   response |-> [status |-> 200]]

\* The inputs are drawn at the start; one step applies createEvent to them.
SerInit ==
  /\ store = [key \in StorageKeys |-> Undefined]
  /\ attached = {}
  /\ closed = {}
  /\ listeners = [t \in Tabs |-> 0]
  /\ tasks = EmptyBag
  /\ sent = <<>>
  /\ events = 0
  /\ tabCalls = 0
  /\ fetchLog = {}
  /\ trace = [t \in Tabs |-> [id \in RequestIds |-> <<>>]]
  /\ \E postData \in BodyValues, responseBody \in BodyResults :
       last = [op |-> "input", postData |-> postData,
               responseBody |-> responseBody]

Serialize ==
  /\ last.op = "input"
  /\ sent' = <<createEvent(last.responseBody, SerRequest(last.postData),
                           SerResponse)>>
  /\ last' = [last EXCEPT !.op = "createEvent"]
  /\ UNCHANGED <<store, attached, closed, listeners, tasks, events, tabCalls,
                 fetchLog, trace>>

SerNext == Serialize

SerSpec == SerInit /\ [][SerNext]_vars

\* The canonical text the specification asks for: absent -> "", a string ->
\* itself, an object -> its JSON text.
Canonical(val) ==
  IF val = Undefined THEN ""
  ELSE IF val.t = "string" THEN val.v
  ELSE "{" \o JSONmembers(val.keys, val.v) \o "}"

\* C12: the serializer maps every body value to a string: an absent value to
\* "", a string to itself, an object to its JSON text; the binary flag of the
\* response is passed through unchanged.
C12_Serializer ==
  last.op = "createEvent"
  => /\ sent[1].requestBody \in STRING
     /\ sent[1].responseBody \in STRING
     /\ sent[1].requestBody = Canonical(last.postData)
     /\ last.responseBody # Undefined
        => /\ sent[1].responseBody = Canonical(last.responseBody.v.body)
           /\ sent[1].responseBodyBase64Encoded
                = last.responseBody.v.base64Encoded

C12_Witness ==
  /\ last.op = "createEvent"
  /\ last.postData = Obj(<<"a", "b">>, [a |-> Num(1), b |-> Str("x")])
  /\ sent[1].requestBody = "{\"a\":1,\"b\":\"x\"}"
  /\ last.responseBody # Undefined
  /\ last.responseBody.v.body = Str("a=1")
  /\ sent[1].responseBody = "a=1"
  /\ sent[1].responseBodyBase64Encoded

\* C13: removing an identifier that the store no longer holds (the second
\* completed correlation of the same identifier) leaves the store unchanged.
C13_SecondRemoveNoOp ==
  [][ ( /\ last'.op = "EventPosted"
        /\ tasks' # tasks
        /\ store[last'.requestId] = Undefined )
      => store' = store ]_vars

C13_Witness ==
  /\ last.op = "EventPosted"
  /\ last.before = Undefined
  /\ Cardinality(Records(last.requestId)) >= 2
  /\ store[last.requestId] = Undefined
  /\ store[domainsStorageKey] # Undefined

\* C14: when a response-received event is handled after the filter-passing
\* request-sent event of its identifier (one listener, no other event for the
\* identifier), the store lookup of the response handler finds the pending
\* request, also when the request needed a post-data fetch.
C14_LookupFindsRequest ==
  ( /\ last.op = "StorageGot"
    /\ SingleListeners
    /\ Len(trace[last.tabId][last.requestId]) = 2
    /\ IsRequest(trace[last.tabId][last.requestId][1])
    /\ Passes(trace[last.tabId][last.requestId][1])
    /\ IsResponse(trace[last.tabId][last.requestId][2])
    /\ \A u \in Tabs \ {last.tabId} : trace[u][last.requestId] = <<>> )
  => /\ last.requestParams # Undefined
     /\ last.requestParams.timestamp
          = trace[last.tabId][last.requestId][1].params.timestamp

\* The lookups started for the event just delivered.
LookupsOfLast ==
  {task \in BagToSet(tasks) : task.k = "storageGet" /\ task.params = last.params}

\* C15, as claimed: a response-received event for an identifier with a stored
\* pending request is correlated whatever resource type the event carries.
C15_ResponseTypeIgnored ==
  ( /\ last.op = "onEvent"
    /\ IsResponse(last)
    /\ store[last.params.requestId] # Undefined )
  => LookupsOfLast # {}

\* C15, amended: a response-received event is correlated (its store lookup is
\* started) exactly when its own resource type is XHR or Fetch; with any
\* other type it is ignored, also when a pending request is stored.
C15_ResponseTypeFiltered ==
  ( /\ last.op = "onEvent"
    /\ IsResponse(last) )
  => /\ Passes(last) <=> LookupsOfLast # {}
     /\ Passes(last) <=> last.acting # {}

C15_Witness ==
  /\ last.op = "onEvent"
  /\ IsResponse(last)
  /\ last.params.type = Str("Image")
  /\ store[last.params.requestId] # Undefined
  /\ LookupsOfLast = {}
  /\ tasks = EmptyBag

\* C16: the pending entry of an identifier leaves the store only in the
\* dispatch callback of a record of that identifier that was handed to the
\* transport.
C16_RemovalAfterDispatch ==
  [][ \A id \in RequestIds :
        (store[id] # Undefined /\ store'[id] = Undefined)
        => /\ last'.op = "EventPosted"
           /\ last'.requestId = id
           /\ last'.event.requestId = id
           /\ \E i \in DOMAIN sent : sent[i] = last'.event
           /\ \E task \in BagToSet(tasks) :
                task.k = "postEvent" /\ task.x = last'.event ]_vars

C16_Witness ==
  /\ last.op = "EventPosted"
  /\ last.before # Undefined
  /\ store[last.requestId] = Undefined
  /\ \E i \in DOMAIN sent : sent[i] = last.event
  /\ Quiescent

\* C17: the success flag handed to the dispatch callback is true only if POST
\* /events answered 2xx; any other status, and a network error (status 0),
\* gives false.
C17_FlagOnly2xx ==
  last.op = "EventPosted"
  => /\ last.isSuccess => Delivered(last.xhrStatus)
     /\ ~Delivered(last.xhrStatus) => last.isSuccess = FALSE

C17_Witness ==
  /\ last.op = "EventPosted"
  /\ last.xhrStatus = 304
  /\ last.isSuccess = FALSE

\* C18: when an identifier is stored again while an earlier correlation of it
\* is still under way, the dispatch callback of the earlier correlation leaves
\* the newer entry in the store: it removes only the entry it consumed.
C18_NewerEntryKept ==
  ( /\ last.op = "EventPosted"
    /\ last.before # Undefined
    /\ last.before.timestamp # last.event.timestamp )
  => store[last.requestId] = last.before

\* The request-sent events captured in tab t for identifier id.
CapturedIn(t, id) ==
  {trace[t][id][i].params.timestamp :
     i \in {j \in DOMAIN trace[t][id] : IsRequest(trace[t][id][j])}}

\* C19: with two observed tabs using the same identifier, the record of a
\* response in tab T is built from a request captured in tab T, and the
\* dispatch callback of a correlation in tab T does not remove an entry that
\* another tab stored.
C19_TabsKeptApart ==
  /\ ( /\ last.op = "ResponseBodyFetched"
       /\ ~last.threw )
     => last.requestParams.timestamp \in CapturedIn(last.tabId, last.requestId)
  /\ ( /\ last.op = "EventPosted"
       /\ last.before # Undefined
       /\ last.before.timestamp \notin CapturedIn(last.tabId, last.requestId) )
     => store[last.requestId] = last.before


\* The number of times the event of the step just taken was handled: once
\* per listener of its tab that let it through.
HandledTimes ==
  IF last.op = "onEvent" /\ last.tabId \in last.acting
  THEN listeners[last.tabId]
  ELSE 0

\* C20: after any sequence of page changes, attaches and detaches, a tab has
\* at most one network-event listener, and each protocol event of the tab is
\* handled at most once.
C20_OneListenerPerTab ==
  /\ \A t \in Tabs : listeners[t] <= 1
  /\ HandledTimes <= 1

====
